---- MODULE Spec2Model ----
(***************************************************************************)
(* Legal-Summarizer: the FIR extraction engine parseFIR of                 *)
(* src/src/CaseSummaryView.js and the SummaryCard that applies it.         *)
(*                                                                         *)
(* A JavaScript string is a tuple of one-character strings, so that the    *)
(* regular expressions of the source are matched character by character.   *)
(* Every regular expression of the source is written as a tuple of nodes   *)
(* and run by one backtracking matcher (Match) that tries the alternatives *)
(* in the priority order of the JavaScript engine.                         *)
(***************************************************************************)
EXTENDS Integers, Sequences, FiniteSets, TLC

(***************************************************************************)
(* Characters                                                              *)
(***************************************************************************)
UpperChars == <<"A","B","C","D","E","F","G","H","I","J","K","L","M","N","O","P","Q","R","S","T","U","V","W","X","Y","Z">>

LowerChars == <<"a","b","c","d","e","f","g","h","i","j","k","l","m","n","o","p","q","r","s","t","u","v","w","x","y","z">>

Upper == {UpperChars[i] : i \in 1..26}

Lower == {LowerChars[i] : i \in 1..26}

Digit == {"0","1","2","3","4","5","6","7","8","9"}

Alpha == Upper \cup Lower

\* \w of the regular expressions
WordChar == Alpha \cup Digit \cup {"_"}

\* \s of the regular expressions, and what String.prototype.trim removes
Space == {" ", "\t", "\n", "\r", "\f"}

ToLower == [c \in Upper |-> LowerChars[CHOOSE i \in 1..26 : UpperChars[i] = c]]

\* canonical form of a character under the i flag
Fold(c) == IF c \in Upper THEN ToLower[c] ELSE c

(***************************************************************************)
(* JavaScript values that are not strings                                  *)
(***************************************************************************)
\* undefined: the value of m?.[1] on a failed match, or of an unset group
Undefined == <<"undefined">>

\* marks a computation that threw a TypeError
TypeError == <<"TypeError">>

\* a value is truthy unless it is undefined or the empty string
Truthy(v) == v # Undefined /\ v # <<>>

\* a || b
Or(a, b) == IF Truthy(a) THEN a ELSE b

(***************************************************************************)
(* Regular expression nodes                                                *)
(***************************************************************************)
Unbounded == -1

Lit(s) == [k |-> "lit", s |-> s]

\* a quantified character class: set{min,max}, greedy or lazy
Cls(set, neg, min, max, lazy) ==
    [k |-> "cls", set |-> set, neg |-> neg, min |-> min, max |-> max, lazy |-> lazy]

One(set) == Cls(set, FALSE, 1, 1, FALSE)

Opt(set) == Cls(set, FALSE, 0, 1, FALSE)

Star(set) == Cls(set, FALSE, 0, Unbounded, FALSE)

Plus(set) == Cls(set, FALSE, 1, Unbounded, FALSE)

LazyPlus(set) == Cls(set, FALSE, 1, Unbounded, TRUE)

\* [^...]* and [^...]+
NotStar(set) == Cls(set, TRUE, 0, Unbounded, FALSE)

NotPlus(set) == Cls(set, TRUE, 1, Unbounded, FALSE)

\* .*? and .* (the dot excludes the line terminators)
LazyDotStar == Cls({"\n", "\r"}, TRUE, 0, Unbounded, TRUE)

DotStar == Cls({"\n", "\r"}, TRUE, 0, Unbounded, FALSE)

\* (?:a|b|...) : alternatives tried from left to right
Alt(alts) == [k |-> "alt", alts |-> alts]

\* (?:body)? : the body first, then nothing
OptGroup(body) == Alt(<<body, <<>>>>)

\* (?=body) and (?!body)
Look(body) == [k |-> "look", neg |-> FALSE, body |-> body]

NotLook(body) == [k |-> "look", neg |-> TRUE, body |-> body]

\* the parentheses of capture group g
Open(g) == [k |-> "open", g |-> g]

Close(g) == [k |-> "close", g |-> g]

\* \b, ^ and $ (no m flag anywhere in the source: ^ and $ are the ends of the input)
WordB == [k |-> "wordb"]

Bol == [k |-> "bol"]

Eol == [k |-> "eol"]

\* a regular expression literal: its nodes and its i flag
Re(nodes, ci) == [nodes |-> nodes, ci |-> ci]

(***************************************************************************)
(* The backtracking matcher                                                *)
(***************************************************************************)
NoCaps == <<<<0, 0>>, <<0, 0>>>>

Fail == [end |-> -1, caps |-> NoCaps]

InClass(n, c) == (c \in n.set) # n.neg

LitAt(s, t, p, ci) ==
    /\ p + Len(s) - 1 <= Len(t)
    /\ \A j \in 1..Len(s) :
          IF ci THEN Fold(t[p + j - 1]) = Fold(s[j]) ELSE t[p + j - 1] = s[j]

IsWordAt(t, p) == p >= 1 /\ p <= Len(t) /\ t[p] \in WordChar

WordBoundary(t, p) == IsWordAt(t, p - 1) # IsWordAt(t, p)

\* how many characters from position p on belong to the class, up to its max
RunLen(n, t, p) ==
    LET lim == IF n.max # Unbounded /\ n.max < Len(t) - p + 1 THEN n.max ELSE Len(t) - p + 1
        stop(c) == c = lim \/ ~InClass(n, t[p + c])
    IN CHOOSE c \in 0..lim : stop(c) /\ \A d \in 0..(c - 1) : ~stop(d)

\* the first of two attempts that succeeds
OrElse(r1, r2) == IF r1.end # -1 THEN r1 ELSE r2

RECURSIVE Match(_, _, _, _, _), FirstCount(_, _, _, _, _, _, _, _), AltTry(_, _, _, _, _, _, _)
\* the first way, in priority order, to match the nodes at position p of t:
\* the end position and the capture groups, or Fail
Match(nodes, t, p, caps, ci) ==
    IF nodes = <<>> THEN [end |-> p, caps |-> caps]
    ELSE LET n == Head(nodes)
             rest == Tail(nodes)
         IN CASE n.k = "lit" ->
                   IF LitAt(n.s, t, p, ci) THEN Match(rest, t, p + Len(n.s), caps, ci) ELSE Fail
              [] n.k = "cls" ->
                   IF RunLen(n, t, p) < n.min THEN Fail
                   ELSE FirstCount(n, rest, t, p, 0, RunLen(n, t, p) - n.min, caps, ci)
              [] n.k = "alt" -> AltTry(n.alts, 1, rest, t, p, caps, ci)
              [] n.k = "look" ->
                   IF (Match(n.body, t, p, caps, ci).end # -1) # n.neg
                   THEN Match(rest, t, p, caps, ci) ELSE Fail
              [] n.k = "open" -> Match(rest, t, p, [caps EXCEPT ![n.g] = <<p, 0>>], ci)
              [] n.k = "close" -> Match(rest, t, p, [caps EXCEPT ![n.g][2] = p], ci)
              [] n.k = "wordb" -> IF WordBoundary(t, p) THEN Match(rest, t, p, caps, ci) ELSE Fail
              [] n.k = "bol" -> IF p = 1 THEN Match(rest, t, p, caps, ci) ELSE Fail
              [] n.k = "eol" -> IF p = Len(t) + 1 THEN Match(rest, t, p, caps, ci) ELSE Fail

\* the quantifier of a class whose run at p has min + width characters: the j-th candidate
\* (j = 0 first) takes the longest run less j characters when greedy, the shortest run
\* plus j characters when lazy; the first candidate in lo..hi after which the rest matches
FirstCount(n, rest, t, p, lo, hi, caps, ci) ==
    IF lo = hi
    THEN Match(rest, t, p + (IF n.lazy THEN n.min + lo ELSE RunLen(n, t, p) - lo), caps, ci)
    ELSE OrElse(FirstCount(n, rest, t, p, lo, (lo + hi) \div 2, caps, ci),
                FirstCount(n, rest, t, p, (lo + hi) \div 2 + 1, hi, caps, ci))

AltTry(alts, a, rest, t, p, caps, ci) ==
    IF a > Len(alts) THEN Fail
    ELSE OrElse(Match(alts[a] \o rest, t, p, caps, ci), AltTry(alts, a + 1, rest, t, p, caps, ci))

\* the result of a failed match (null)
Null == [index |-> 0, end |-> 0, caps |-> NoCaps]

\* the match object of an attempt at position p
MatchAt(p, r) == IF r.end # -1 THEN [index |-> p, end |-> r.end, caps |-> r.caps] ELSE Null

\* m1 ?? m2
OrMatch(m1, m2) == IF m1 # Null THEN m1 ELSE m2

RECURSIVE FirstMatch(_, _, _, _)
\* the leftmost match that starts at a position in lo..hi, or Null
FirstMatch(re, t, lo, hi) ==
    IF lo > hi THEN Null
    ELSE IF lo = hi THEN MatchAt(lo, Match(re.nodes, t, lo, NoCaps, re.ci))
         ELSE OrMatch(FirstMatch(re, t, lo, (lo + hi) \div 2),
                      FirstMatch(re, t, (lo + hi) \div 2 + 1, hi))

\* RegExp exec from position p: the leftmost match at or after p, or Null
ExecFrom(re, t, p) == FirstMatch(re, t, p, Len(t) + 1)

\* String.prototype.match with a regular expression without the g flag
StrMatch(t, re) == ExecFrom(re, t, 1)

\* m[0]: the matched text
Whole(t, m) == SubSeq(t, m.index, m.end - 1)

\* m[g] of a successful match: the matched text for g = 0, else the text of group g,
\* undefined if the group did not take part
GroupOf(t, m, g) ==
    IF g = 0 THEN Whole(t, m)
    ELSE IF m.caps[g][1] = 0 THEN Undefined
         ELSE SubSeq(t, m.caps[g][1], m.caps[g][2] - 1)

\* m[g]: throws on a null m
Index(t, m, g) == IF m = Null THEN TypeError ELSE GroupOf(t, m, g)

\* m[g] in place of m?.[g]
OptIndexUnguarded(t, m, g) == Index(t, m, g)

\* m?.[g]: undefined on a null m
OptIndex(t, m, g) == IF m = Null THEN Undefined ELSE GroupOf(t, m, g)

\* String.prototype.search: the 0-based index of the first match, or -1
StrSearch(t, re) == StrMatch(t, re).index - 1

\* RegExp.prototype.test
ReTest(re, t) == StrMatch(t, re) # Null

(***************************************************************************)
(* String and array methods                                                *)
(***************************************************************************)
RECURSIVE TrimStart(_), TrimEnd(_)
TrimStart(t) == IF t # <<>> /\ Head(t) \in Space THEN TrimStart(Tail(t)) ELSE t

TrimEnd(t) == IF t # <<>> /\ t[Len(t)] \in Space THEN TrimEnd(SubSeq(t, 1, Len(t) - 1)) ELSE t

\* String.prototype.trim
Trim(t) == TrimEnd(TrimStart(t))

\* String.prototype.slice(from) and slice(0, to), 0-based
SliceFrom(t, from) == SubSeq(t, from + 1, Len(t))

SliceTo(t, to) == SubSeq(t, 1, to)

RECURSIVE ReplaceAllFrom(_, _, _, _), ReplaceNext(_, _, _, _, _)
\* the text from position p on with every match replaced
ReplaceAllFrom(t, re, repl, p) == ReplaceNext(t, re, repl, p, ExecFrom(re, t, p))

\* m is the next match at or after p
ReplaceNext(t, re, repl, p, m) ==
    IF m = Null THEN SubSeq(t, p, Len(t))
    ELSE IF m.end = m.index
         THEN IF m.index > Len(t) THEN SubSeq(t, p, Len(t)) \o repl
              ELSE SubSeq(t, p, m.index - 1) \o repl \o <<t[m.index]>>
                   \o ReplaceAllFrom(t, re, repl, m.index + 1)
         ELSE SubSeq(t, p, m.index - 1) \o repl \o ReplaceAllFrom(t, re, repl, m.end)

\* String.prototype.replace with a g-flagged regular expression and a constant replacement
ReplaceAll(t, re, repl) == ReplaceAllFrom(t, re, repl, 1)

\* the text with the match m replaced
Splice(t, m, repl) ==
    IF m = Null THEN t ELSE SubSeq(t, 1, m.index - 1) \o repl \o SubSeq(t, m.end, Len(t))

\* String.prototype.replace with a regular expression without the g flag
ReplaceFirst(t, re, repl) == Splice(t, StrMatch(t, re), repl)

RECURSIVE MatchAllFrom(_, _, _), MatchAllNext(_, _, _)
MatchAllFrom(t, re, p) == MatchAllNext(t, re, ExecFrom(re, t, p))

MatchAllNext(t, re, m) ==
    IF m = Null THEN <<>>
    ELSE <<m>> \o MatchAllFrom(t, re, IF m.end = m.index THEN m.end + 1 ELSE m.end)

\* String.prototype.matchAll: every match, left to right, of a fresh copy of the regular expression
MatchAll(t, re) == MatchAllFrom(t, re, 1)

RECURSIVE SplitFrom(_, _, _, _), SplitNext(_, _, _, _, _)
\* the pieces of the text from position p on, the next separator sought from position from
SplitFrom(t, re, p, from) == SplitNext(t, re, p, from, ExecFrom(re, t, from))

SplitNext(t, re, p, from, m) ==
    IF m = Null \/ m.index > Len(t) THEN <<SubSeq(t, p, Len(t))>>
    ELSE IF m.end = m.index THEN SplitFrom(t, re, p, from + 1)
         ELSE <<SubSeq(t, p, m.index - 1)>> \o SplitFrom(t, re, m.end, m.end)

\* String.prototype.split with a separator (a string separator is a case-sensitive literal)
Split(t, re) == IF t = <<>> THEN <<<<>>>> ELSE SplitFrom(t, re, 1, 1)

RECURSIVE Join(_, _)
\* Array.prototype.join
Join(arr, sep) ==
    IF arr = <<>> THEN <<>>
    ELSE IF Len(arr) = 1 THEN arr[1]
         ELSE arr[1] \o sep \o Join(Tail(arr), sep)

RECURSIVE Dedupe(_, _)
Dedupe(arr, seen) ==
    IF arr = <<>> THEN <<>>
    ELSE IF Head(arr) \in seen THEN Dedupe(Tail(arr), seen)
         ELSE <<Head(arr)>> \o Dedupe(Tail(arr), seen \cup {Head(arr)})

\* the array kept as it is, duplicates included
ArrayFromSetKeepAll(arr) == arr

\* Array.from(new Set(arr)): the first occurrence of every value, in insertion order
ArrayFromSet(arr) == Dedupe(arr, {})

\* Array.prototype.filter(Boolean)
RECURSIVE FilterTruthy(_)
FilterTruthy(arr) ==
    IF arr = <<>> THEN <<>>
    ELSE IF Truthy(Head(arr)) THEN <<Head(arr)>> \o FilterTruthy(Tail(arr))
         ELSE FilterTruthy(Tail(arr))

(***************************************************************************)
(* Helpers of the source                                                   *)
(***************************************************************************)
NA == <<"N","/","A">>

\* the character U+2013 (en dash) of the key point labels
EnDash == "u2013"

RECURSIVE pickFrom(_, _, _, _, _), pickMatch(_, _, _, _, _, _)
\* the loop of pick from the i-th pattern on
pickFrom(reArr, i, text, group, fb) ==
    IF i > Len(reArr) THEN fb
    ELSE pickMatch(reArr, i, text, group, fb, StrMatch(text, reArr[i]))

\* if (m && m[group]) return String(m[group]).trim()
pickMatch(reArr, i, text, group, fb, m) ==
    IF m # Null /\ Truthy(Index(text, m, group)) THEN Trim(Index(text, m, group))
    ELSE pickFrom(reArr, i + 1, text, group, fb)

\* pick: the trimmed group of the first pattern that matches with a non-empty group, else fb
pick(reArr, text, group, fb) == pickFrom(reArr, 1, text, group, fb)

(***************************************************************************)
(* The regular expressions of parseFIR                                     *)
(***************************************************************************)
NameChars == Alpha \cup {" ", ".", "'", "_", "-"}

AccusedChars == NameChars \cup {"@"}

WitnessChars == Alpha \cup {" ", ".", "'", "-"}

StationChars == Alpha \cup Digit \cup {" ", ".", ",", "&", "'", "_", "-"}

FirChars == Alpha \cup Digit \cup {"/", "-"}

LocalityChars == Alpha \cup {" ", ".", ",", "&", "'", "_", "-"}

Seps == {":", "-"}

\* (?=,|\n|$)
CommaOrLineEnd == Look(<<Alt(<< <<Lit(<<",">>)>>, <<Lit(<<"\n">>)>>, <<Eol>> >>)>>)

\* (?=,|\.|\n|$)
CommaDotOrLineEnd == Look(<<Alt(<< <<Lit(<<",">>)>>, <<Lit(<<".">>)>>, <<Lit(<<"\n">>)>>, <<Eol>> >>)>>)

PoliceStationNodes ==
    <<WordB, Lit(<<"P","o","l","i","c","e">>), Star(Space), Lit(<<"S","t","a","t","i","o","n">>), Star(Space), Opt(Seps), Star(Space),
      Open(1), LazyPlus(StationChars), Close(1), CommaOrLineEnd>>

PoliceStationRe == Re(PoliceStationNodes, TRUE)

FirNumberRe1 ==
    Re(<<WordB, Lit(<<"F","I","R">>), Star(Space),
         Alt(<< <<Lit(<<"N","o">>), Opt({"."})>>, <<Lit(<<"N","u","m","b","e","r">>)>> >>),
         Star(Space), Opt(Seps), Star(Space), Open(1), Plus(FirChars), Close(1)>>, TRUE)

FirNumberRe2 ==
    Re(<<WordB, Lit(<<"F","I","R">>), Star(Space), Lit(<<"r","e","g","i","s","t","e","r","e","d">>), Star(Space), Lit(<<"N","o">>), Opt({"."}),
         Star(Space), Open(1), Plus(FirChars), Close(1)>>, TRUE)

DateSeps == {"/", "-", "."}

DateRe ==
    Re(<<WordB, Lit(<<"D","a","t","e">>), Star(Space), Opt(Seps), Star(Space), Open(1),
         Cls(Digit, FALSE, 1, 2, FALSE), One(DateSeps), Cls(Digit, FALSE, 1, 2, FALSE),
         One(DateSeps), Cls(Digit, FALSE, 2, 4, FALSE), Close(1)>>, TRUE)

\* [0-9]{1,2}[:.][0-9]{2}
ClockNodes == <<Cls(Digit, FALSE, 1, 2, FALSE), One({":", "."}), Cls(Digit, FALSE, 2, 2, FALSE)>>

\* \s*(?:AM|PM|am|pm)?
MeridiemNodes == <<Star(Space), Alt(<< <<Lit(<<"A","M">>)>>, <<Lit(<<"P","M">>)>>, <<Lit(<<"a","m">>)>>, <<Lit(<<"p","m">>)>>, <<>> >>)>>

TimeRe1 ==
    Re(<<WordB, Lit(<<"T","i","m","e">>), Star(Space), Opt(Seps), Star(Space), Open(1)>>
       \o ClockNodes \o MeridiemNodes \o <<Close(1)>>, TRUE)

TimeRe2 ==
    Re(<<WordB, Alt(<< <<Lit(<<"a","t">>)>>, <<Lit(<<"a","r","o","u","n","d">>)>> >>), Star(Space), Open(1)>>
       \o ClockNodes \o MeridiemNodes \o <<Close(1)>>, TRUE)

TimeRe3 ==
    Re(<<WordB, Open(1)>> \o ClockNodes \o
       <<Close(1), Star(Space), Alt(<< <<Lit(<<"h","r","s">>)>>, <<Lit(<<"H","r","s">>)>>, <<Lit(<<"h","o","u","r","s">>)>>, <<>> >>)>>, TRUE)

ComplainantHeadRe ==
    Re(<<Lit(<<"1",".">>), Star(Space), Lit(<<"C","o","m","p","l","a","i","n","a","n","t">>), Star(Space), Lit(<<"D","e","t","a","i","l","s">>)>>, TRUE)

AccusedHeadRe ==
    Re(<<Lit(<<"2",".">>), Star(Space), Lit(<<"A","c","c","u","s","e","d">>), Star(Space), Lit(<<"D","e","t","a","i","l","s">>)>>, TRUE)

WitnessHeadRe ==
    Re(<<Lit(<<"5",".">>), Star(Space), Lit(<<"W","i","t","n","e","s","s">>), OptGroup(<<Lit(<<"e","s">>)>>)>>, TRUE)

IoHeadRe ==
    Re(<<Lit(<<"7",".">>), Star(Space), Lit(<<"I","n","v","e","s","t","i","g","a","t","i","n","g">>), Star(Space), Lit(<<"O","f","f","i","c","e","r">>)>>, TRUE)

\* /2\./i, /3\./i, /6\./i and /8\./i
EndRe(d) == Re(<<Lit(<<d, ".">>)>>, TRUE)

\* (?=\s+(?:Age|Address|...|Time)\b|,|\n|$)
LabelStop ==
    Look(<<Alt(<< <<Plus(Space),
                    Alt(<< <<Lit(<<"A","g","e">>)>>, <<Lit(<<"A","d","d","r","e","s","s">>)>>, <<Lit(<<"D","e","s","i","g","n","a","t","i","o","n">>)>>,
                           <<Lit(<<"C","o","n","t","a","c","t">>)>>, <<Lit(<<"M","o","b","i","l","e">>)>>, <<Lit(<<"P","h","o","n","e">>)>>,
                           <<Lit(<<"E","m","a","i","l">>)>>, <<Lit(<<"P","o","l","i","c","e">>)>>, <<Lit(<<"S","t","a","t","i","o","n">>)>>,
                           <<Lit(<<"F","I","R">>)>>, <<Lit(<<"D","a","t","e">>)>>, <<Lit(<<"T","i","m","e">>)>> >>),
                    WordB>>,
                  <<Lit(<<",">>)>>, <<Lit(<<"\n">>)>>, <<Eol>> >>)>>)

\* Name\s*:\s*([chars]+?)(?=...)
BlockNameRe(chars) ==
    Re(<<Lit(<<"N","a","m","e">>), Star(Space), Lit(<<":">>), Star(Space), Open(1), LazyPlus(chars), Close(1),
         LabelStop>>, TRUE)

\* \bWho(?:\s*Name|\s*Details)?\s*:\s*([chars]+)
FlatPartyRe(who, chars) ==
    Re(<<WordB, Lit(who),
         OptGroup(<<Alt(<< <<Star(Space), Lit(<<"N","a","m","e">>)>>, <<Star(Space), Lit(<<"D","e","t","a","i","l","s">>)>> >>)>>),
         Star(Space), Lit(<<":">>), Star(Space), Open(1), Plus(chars), Close(1)>>, TRUE)

NameEchoRe ==
    Re(<<Bol, Star(Space), OptGroup(<<Lit(<<"N","a","m","e">>), Star(Space), Lit(<<":">>), Star(Space)>>)>>, TRUE)

RankRe ==
    Re(<<Bol, Alt(<< <<Lit(<<"S","I">>)>>, <<Lit(<<"A","S","I">>)>>, <<Lit(<<"H","C">>)>>, <<Lit(<<"P","C">>)>>, <<Lit(<<"C","t">>)>>,
                     <<Lit(<<"I","n","s","p","e","c","t","o","r">>)>>, <<Lit(<<"S","u","b","-","I","n","s","p","e","c","t","o","r">>)>> >>),
         Opt({"."}), Plus(Space)>>, TRUE)

SpacesRe == Re(<<Plus(Space)>>, FALSE)

\* (?=,|\.|\s+(?:Designation|Rank|Police\s*Station|...|Email)\b|$)
WitnessStop ==
    Look(<<Alt(<< <<Lit(<<",">>)>>, <<Lit(<<".">>)>>,
                  <<Plus(Space),
                    Alt(<< <<Lit(<<"D","e","s","i","g","n","a","t","i","o","n">>)>>, <<Lit(<<"R","a","n","k">>)>>,
                           <<Lit(<<"P","o","l","i","c","e">>), Star(Space), Lit(<<"S","t","a","t","i","o","n">>)>>,
                           <<Lit(<<"A","d","d","r","e","s","s">>)>>, <<Lit(<<"A","g","e">>)>>, <<Lit(<<"C","o","n","t","a","c","t">>)>>,
                           <<Lit(<<"M","o","b","i","l","e">>)>>, <<Lit(<<"P","h","o","n","e">>)>>, <<Lit(<<"E","m","a","i","l">>)>> >>),
                    WordB>>,
                  <<Eol>> >>)>>)

WitnessLineRe ==
    Re(<<Bol, Star(Space),
         OptGroup(<<Alt(<< <<Lit(<<"-">>)>>, <<Plus(Digit), Lit(<<".">>)>> >>)>>),
         Star(Space), Open(1), LazyPlus(WitnessChars), Close(1), WitnessStop>>, TRUE)

WitnessInlineRe ==
    Re(<<WordB, Lit(<<"W","i","t","n","e","s","s">>), OptGroup(<<Lit(<<"e","s">>)>>), NotStar({":"}), Lit(<<":">>), Star(Space),
         Open(1), NotPlus({".", "\n"}), Close(1)>>, TRUE)

ChunkSplitRe == Re(<<Alt(<< <<Lit(<<",">>)>>, <<Lit(<<" ","a","n","d"," ">>)>> >>)>>, TRUE)

WitnessChunkRe ==
    Re(<<Bol, Star(Space), Open(1), LazyPlus(WitnessChars), Close(1), WitnessStop>>, FALSE)

NewlineRe == Re(<<Lit(<<"\n">>)>>, FALSE)

IoInlineRe1 ==
    Re(<<WordB, Lit(<<"I","n","v","e","s","t","i","g","a","t","i","n","g">>), Star(Space), Lit(<<"O","f","f","i","c","e","r">>), Star(Space), Lit(<<"N","a","m","e">>),
         Star(Space), Lit(<<":">>), Star(Space), Open(1), LazyPlus(WitnessChars), Close(1),
         CommaDotOrLineEnd>>, TRUE)

IoInlineRe2 ==
    Re(<<WordB, Lit(<<"I","O">>), Star(Space), Lit(<<"N","a","m","e">>), Star(Space), Lit(<<":">>), Star(Space),
         Open(1), LazyPlus(WitnessChars), Close(1), CommaDotOrLineEnd>>, TRUE)

IoInlineRe3 ==
    Re(<<Lit(<<"a","s","s","i","g","n","e","d">>), Plus(Space), Lit(<<"t","o">>), Star(Space), Open(1), LazyPlus(WitnessChars),
         Close(1), Star(Space), Lit(<<",">>), Star(Space), Lit(<<"I","n","v","e","s","t","i","g","a","t","i","n","g">>), Star(Space),
         Lit(<<"O","f","f","i","c","e","r">>)>>, TRUE)

IpcSectionRe ==
    Re(<<WordB, Lit(<<"I","P","C">>), Star(Space), Lit(<<"S","e","c","t","i","o","n">>), Star(Space), Open(1), Plus(Digit),
         Close(1)>>, TRUE)

SectionIpcRe ==
    Re(<<WordB, Lit(<<"S","e","c","t","i","o","n">>), Star(Space), Open(1), Plus(Digit), Close(1), Star(Space),
         Lit(<<"I","P","C">>), WordB>>, TRUE)

LocationLabelRe ==
    Re(<<WordB, Lit(<<"L","o","c","a","t","i","o","n">>), Star(Space), Opt(Seps), Star(Space), Open(1),
         LazyPlus(StationChars), Close(1), CommaOrLineEnd>>, TRUE)

SubLocalityRe ==
    Re(<<WordB, Lit(<<"P","o","l","i","c","e">>), Star(Space), Lit(<<"S","t","a","t","i","o","n">>), LazyDotStar, Lit(<<"(">>), Star(Space),
         Open(1), LazyPlus(StationChars), Close(1), Star(Space), Lit(<<")">>)>>, TRUE)

\* (?!Survey\s*No\b|FIR\b|First\b|Information\b|Report\b|Police\s*Station\b)
NotBoilerplateAhead ==
    NotLook(<<Alt(<< <<Lit(<<"S","u","r","v","e","y">>), Star(Space), Lit(<<"N","o">>), WordB>>, <<Lit(<<"F","I","R">>), WordB>>,
                     <<Lit(<<"F","i","r","s","t">>), WordB>>, <<Lit(<<"I","n","f","o","r","m","a","t","i","o","n">>), WordB>>,
                     <<Lit(<<"R","e","p","o","r","t">>), WordB>>,
                     <<Lit(<<"P","o","l","i","c","e">>), Star(Space), Lit(<<"S","t","a","t","i","o","n">>), WordB>> >>)>>)

AtInNodes == <<WordB, Alt(<< <<Lit(<<"a","t">>)>>, <<Lit(<<"i","n">>)>> >>), Plus(Space), NotBoilerplateAhead>>

AtInRe == Re(AtInNodes \o <<Open(1), LazyPlus(StationChars), Close(1), CommaOrLineEnd>>, TRUE)

BoilerplateRe ==
    Re(<<WordB, Alt(<< <<Lit(<<"F","I","R">>)>>, <<Lit(<<"F","i","r","s","t">>)>>, <<Lit(<<"I","n","f","o","r","m","a","t","i","o","n">>)>>, <<Lit(<<"R","e","p","o","r","t">>)>> >>),
         WordB>>, TRUE)

LocalitySuffixRe ==
    Re(AtInNodes \o
       <<Open(1), LazyPlus(LocalityChars),
         Alt(<< <<Lit(<<"P","u","r","a","m">>)>>, <<Lit(<<"N","a","g","a","r">>)>>, <<Lit(<<"C","o","l","o","n","y">>)>>, <<Lit(<<"R","o","a","d">>)>>,
                <<Lit(<<"S","t","r","e","e","t">>)>>, <<Lit(<<"L","a","y","o","u","t">>)>>, <<Lit(<<"B","l","o","c","k">>)>>, <<Lit(<<"A","r","e","a">>)>>,
                <<Lit(<<"D","i","s","t","r","i","c","t">>)>>, <<Lit(<<"C","i","t","y">>)>> >>),
         Close(1), CommaOrLineEnd>>, TRUE)

SurveyTailRe ==
    Re(<<WordB, Lit(<<"S","u","r","v","e","y">>), Star(Space), Lit(<<"N","o">>), WordB, DotStar, Eol>>, TRUE)

InitialsRe ==
    Re(<<WordB, Open(1), One(Upper), Close(1), Star(Space), Lit(<<".">>), Star(Space), Open(2),
         One(Upper), Close(2), Star(Space), Lit(<<".">>)>>, FALSE)

RsPuramRe ==
    Re(<<WordB, Lit(<<"R">>), Opt({"."}), Star(Space), Lit(<<"S">>), Opt({"."}), Star(Space),
         Lit(<<"P","u","r","a","m">>), WordB>>, TRUE)

BharathiNagarRe ==
    Re(<<WordB, Lit(<<"B","h","a","r","a","t","h","i">>), Star(Space), Lit(<<"N","a","g","a","r">>), WordB>>, TRUE)

CrLfRe == Re(<<Lit(<<"\r">>), Opt({"\n"})>>, FALSE)

BlanksRe == Re(<<Plus({" ", "\t"})>>, FALSE)

(***************************************************************************)
(* parseFIR                                                                *)
(***************************************************************************)
\* rest.slice(0, e), or the rest when no end heading follows
sliceUpTo(rest, e) == IF e = -1 THEN rest ELSE SliceTo(rest, e)

\* text.slice(s) cut at the first endRe in it
sliceFrom(text, s, endRe) ==
    IF s = -1 THEN <<>> ELSE sliceUpTo(SliceFrom(text, s), StrSearch(SliceFrom(text, s), endRe))

\* text.slice(s, e) with the end pattern searched in the whole text, not from s on
sliceBetweenWholeText(text, startRe, endRe) ==
    IF StrSearch(text, startRe) = -1 THEN <<>>
    ELSE IF StrSearch(text, endRe) = -1 THEN SliceFrom(text, StrSearch(text, startRe))
         ELSE SubSeq(text, StrSearch(text, startRe) + 1, StrSearch(text, endRe))

\* sliceBetween: from the first startRe up to the first endRe after it (or the end of the text)
sliceBetween(text, startRe, endRe) == sliceFrom(text, StrSearch(text, startRe), endRe)

\* const complainantBlock = sliceBetween(/1\.\s*Complainant\s*Details/i, /2\./i)
complainantBlock(text) == sliceBetween(text, ComplainantHeadRe, EndRe("2"))

\* const accusedBlock = sliceBetween(/2\.\s*Accused\s*Details/i, /3\./i)
accusedBlock(text) == sliceBetween(text, AccusedHeadRe, EndRe("3"))

\* const witnessesBlock = sliceBetween(/5\.\s*Witness(?:es)?/i, /6\./i)
witnessesBlock(text) == sliceBetween(text, WitnessHeadRe, EndRe("6"))

\* const ioBlock = sliceBetween(/7\.\s*Investigating\s*Officer/i, /8\./i)
ioBlock(text) == sliceBetween(text, IoHeadRe, EndRe("8"))

\* cleanPerson: drop a "Name:" echo and a leading police rank, tidy the spaces
cleanPerson(s) ==
    Trim(ReplaceAll(ReplaceFirst(ReplaceFirst(Or(s, <<>>), NameEchoRe, <<>>), RankRe, <<>>),
                    SpacesRe, <<" ">>))

\* if (name) witnesses.push(name)
push(name) == IF Truthy(name) THEN <<name>> ELSE <<>>

\* one line of the witness block: if (m && m[1]) push the cleaned name
lineWitness(line, m) ==
    IF m # Null /\ Truthy(Index(line, m, 1)) THEN push(cleanPerson(Index(line, m, 1))) ELSE <<>>

RECURSIVE blockWitnesses(_)
\* 5.a: the names on the bullet or numbered lines of the witness block
blockWitnesses(lines) ==
    IF lines = <<>> THEN <<>>
    ELSE lineWitness(Head(lines), StrMatch(Head(lines), WitnessLineRe))
         \o blockWitnesses(Tail(lines))

\* the name group of one chunk of the inline witness list
chunkGroup(chunk) == OptIndex(chunk, StrMatch(chunk, WitnessChunkRe), 1)

\* one chunk: push cleanPerson(group || ""); a TypeError entry marks a member access that threw
chunkWitness(group) ==
    IF group = TypeError THEN <<TypeError>> ELSE push(cleanPerson(Or(group, <<>>)))

RECURSIVE inlineWitnesses(_)
\* 5.b: the names of the chunks of an inline "Witnesses: a, b and c"
inlineWitnesses(chunks) ==
    IF chunks = <<>> THEN <<>>
    ELSE chunkWitness(chunkGroup(Head(chunks))) \o inlineWitnesses(Tail(chunks))

\* the inline fallback: const inline = group || ""; if (inline) split it into chunks
inlineFallback(group) ==
    IF group = TypeError THEN <<TypeError>>
    ELSE IF Truthy(Or(group, <<>>)) THEN inlineWitnesses(Split(Or(group, <<>>), ChunkSplitRe))
         ELSE <<>>

\* the names pushed to witnesses: the block's, or if (witnesses.length === 0) the inline ones
pushed(fromBlock, flat) ==
    IF Len(fromBlock) = 0
    THEN inlineFallback(OptIndex(flat, StrMatch(flat, WitnessInlineRe), 1))
    ELSE fromBlock

\* a member access threw while the names were collected
Thrown(names) == \E i \in 1..Len(names) : names[i] = TypeError

RECURSIVE sectionNamesVerbatim(_, _)
\* the matched citation kept as written, not normalised
sectionNamesVerbatim(text, ms) ==
    IF ms = <<>> THEN <<>>
    ELSE <<Whole(text, Head(ms))>> \o sectionNamesVerbatim(text, Tail(ms))

RECURSIVE sectionNames(_, _)
\* `IPC ${m[1]}` for every match
sectionNames(text, ms) ==
    IF ms = <<>> THEN <<>>
    ELSE <<<<"I","P","C"," ">> \o Index(text, Head(ms), 1)>> \o sectionNames(text, Tail(ms))

\* the Set insertions of the two matchAll loops, in order
sectionInsertions(text) ==
    sectionNames(text, MatchAll(text, IpcSectionRe)) \o sectionNames(text, MatchAll(text, SectionIpcRe))

RECURSIVE compactInitials(_, _), compactNext(_, _, _)
\* replace(/\b([A-Z])\s*\.\s*([A-Z])\s*\./g, "$1.$2.")
compactInitials(t, p) == compactNext(t, p, ExecFrom(InitialsRe, t, p))

compactNext(t, p, m) ==
    IF m = Null THEN SubSeq(t, p, Len(t))
    ELSE SubSeq(t, p, m.index - 1) \o GroupOf(t, m, 1) \o <<".">> \o GroupOf(t, m, 2) \o <<".">>
         \o compactInitials(t, m.end)

\* the timeline entry test with && in place of ||
timelineNeededBoth(date, time) == date # NA /\ time # NA

\* the timeline entry test
timelineNeeded(date, time) == date # NA \/ time # NA

\* a scalar returned without its default
orNAOmitted(v) == v

\* the defaulting of a scalar in the returned entities: v || "N/A"
orNA(v) == Or(v, NA)

\* the summary returned for a blank input
empty ==
    [completion |-> "return",
     overview |-> <<"F","I","R"," ","s","u","m","m","a","r","y"," ","n","o","t"," ","a","v","a","i","l","a","b","l","e",".">>,
     keyPoints |-> <<>>,
     entities |-> [firNumber |-> NA, policeStation |-> NA, date |-> NA, time |-> NA,
                   complainant |-> NA, accused |-> NA, witnesses |-> <<>>, sections |-> <<>>,
                   location |-> NA, investigatingOfficer |-> NA],
     timeline |-> <<>>]

\* the early return without its trim test: !raw only
isBlankNoTrim(raw) == ~Truthy(raw)

\* the guard of the early return: !raw || !raw.trim()
isBlank(raw) == ~Truthy(raw) \/ ~Truthy(Trim(raw))

\* the name line of a numbered block: block.match(/Name.../)?.[1]
nameInBlock(block, chars) == OptIndex(block, StrMatch(block, BlockNameRe(chars)), 1)

\* 2. complainant: (inBlock || pick(flat) || "N/A").trim()
complainantOf(inBlock, flat) ==
    IF inBlock = TypeError THEN TypeError
    ELSE Trim(Or(Or(inBlock, pick(<<FlatPartyRe(<<"C","o","m","p","l","a","i","n","a","n","t">>, NameChars)>>, flat, 1, NA)), NA))

\* 3. accused
accusedOf(inBlock, flat) ==
    IF inBlock = TypeError THEN TypeError
    ELSE Trim(Or(Or(inBlock, pick(<<FlatPartyRe(<<"A","c","c","u","s","e","d">>, AccusedChars)>>, flat, 1, NA)), NA))

\* 7. investigating officer: (inBlock || ioInline || "N/A").trim()
investigatingOfficerOf(inBlock, ioInline) ==
    IF inBlock = TypeError THEN TypeError ELSE Trim(Or(Or(inBlock, ioInline), NA))

\* the first location with the police station tried before the parenthesised sub-locality
locationPickedStationFirst(flat) ==
    Or(pick(<<LocationLabelRe, PoliceStationRe, SubLocalityRe, AtInRe>>, flat, 1, <<>>), <<>>)

\* the first location: pick(labelled, sub-locality, police station, at/in) || ""
locationPicked(flat) ==
    Or(pick(<<LocationLabelRe, SubLocalityRe, PoliceStationRe, AtInRe>>, flat, 1, <<>>), <<>>)

\* (m?.[1] || "").trim() of the locality-suffix pattern
localitySuffix(group) == IF group = TypeError THEN TypeError ELSE Trim(Or(group, <<>>))

\* if (!location || boilerplate.test(location)) location = the locality-suffix match
locationSecondPass(location, flat) ==
    IF ~Truthy(location) \/ ReTest(BoilerplateRe, location)
    THEN localitySuffix(OptIndex(flat, StrMatch(flat, LocalitySuffixRe), 1))
    ELSE location

\* the clean-up of the location: survey tail, spaces, initials, trim
locationCleaned(location) ==
    IF location = TypeError THEN TypeError
    ELSE Trim(compactInitials(
                ReplaceAll(ReplaceFirst(Or(location, <<>>), SurveyTailRe, <<>>), SpacesRe, <<" ">>),
                1))

\* (bn || rs || policeStation || "N/A").trim()
knownLocality(rs, bn, policeStation) ==
    IF TypeError \in {rs, bn} THEN TypeError ELSE Trim(Or(Or(Or(bn, rs), policeStation), NA))

\* if (!location) fall back to a known locality or the police station
locationFallback(location, flat, policeStation) ==
    IF location = TypeError THEN TypeError
    ELSE IF ~Truthy(location)
         THEN knownLocality(OptIndex(flat, StrMatch(flat, RsPuramRe), 0),
                            OptIndex(flat, StrMatch(flat, BharathiNagarRe), 0), policeStation)
         ELSE location

\* 8. location
locationOf(flat, policeStation) ==
    locationFallback(locationCleaned(locationSecondPass(locationPicked(flat), flat)),
                     flat, policeStation)

\* the overview parts without the test that the location differs from the police station
overviewPartsRepeated(policeStation, location, firNumber, date, time) ==
    <<<<"F","I","R"," ","r","e","g","i","s","t","e","r","e","d">>>>
    \o (IF Truthy(policeStation) /\ policeStation # NA THEN <<<<"a","t"," ">> \o policeStation>> ELSE <<>>)
    \o (IF Truthy(location) /\ location # NA THEN <<<<"(">> \o location \o <<")">>>> ELSE <<>>)
    \o (IF Truthy(firNumber) /\ firNumber # NA THEN <<<<"F","I","R"," ","N","o",":"," ">> \o firNumber>> ELSE <<>>)
    \o (IF Truthy(date) /\ date # NA THEN <<<<"D","a","t","e",":"," ">> \o date>> ELSE <<>>)
    \o (IF Truthy(time) /\ time # NA THEN <<<<"T","i","m","e",":"," ">> \o time>> ELSE <<>>)

overviewParts(policeStation, location, firNumber, date, time) ==
    <<<<"F","I","R"," ","r","e","g","i","s","t","e","r","e","d">>>>
    \o (IF Truthy(policeStation) /\ policeStation # NA THEN <<<<"a","t"," ">> \o policeStation>> ELSE <<>>)
    \o (IF Truthy(location) /\ location # NA /\ location # policeStation
        THEN <<<<"(">> \o location \o <<")">>>> ELSE <<>>)
    \o (IF Truthy(firNumber) /\ firNumber # NA THEN <<<<"F","I","R"," ","N","o",":"," ">> \o firNumber>> ELSE <<>>)
    \o (IF Truthy(date) /\ date # NA THEN <<<<"D","a","t","e",":"," ">> \o date>> ELSE <<>>)
    \o (IF Truthy(time) /\ time # NA THEN <<<<"T","i","m","e",":"," ">> \o time>> ELSE <<>>)

\* 9. overview
overviewOf(policeStation, location, firNumber, date, time) ==
    Trim(ReplaceAll(Join(overviewParts(policeStation, location, firNumber, date, time), <<" ">>),
                    SpacesRe, <<" ">>))

\* the key points with the sections joined without their "N/A" default
keyPointsOfJoined(complainant, accused, location, sections, investigatingOfficer) ==
    <<<<"C","o","m","p","l","a","i","n","a","n","t"," ">> \o <<EnDash>> \o <<" ">> \o orNA(complainant),
      <<"A","c","c","u","s","e","d"," ">> \o <<EnDash>> \o <<" ">> \o orNA(accused),
      <<"L","o","c","a","t","i","o","n"," ">> \o <<EnDash>> \o <<" ">> \o orNA(location),
      <<"S","e","c","t","i","o","n","s"," ">> \o <<EnDash>> \o <<" ">> \o Join(sections, <<","," ">>),
      <<"I","n","v","e","s","t","i","g","a","t","i","n","g"," ","O","f","f","i","c","e","r"," ">> \o <<EnDash>> \o <<" ">> \o orNA(investigatingOfficer)>>

keyPointsOf(complainant, accused, location, sections, investigatingOfficer) ==
    <<<<"C","o","m","p","l","a","i","n","a","n","t"," ">> \o <<EnDash>> \o <<" ">> \o orNA(complainant),
      <<"A","c","c","u","s","e","d"," ">> \o <<EnDash>> \o <<" ">> \o orNA(accused),
      <<"L","o","c","a","t","i","o","n"," ">> \o <<EnDash>> \o <<" ">> \o orNA(location),
      <<"S","e","c","t","i","o","n","s"," ">> \o <<EnDash>> \o <<" ">> \o (IF Len(sections) # 0 THEN Join(sections, <<","," ">>) ELSE NA),
      <<"I","n","v","e","s","t","i","g","a","t","i","n","g"," ","O","f","f","i","c","e","r"," ">> \o <<EnDash>> \o <<" ">> \o orNA(investigatingOfficer)>>

timelineOf(date, time) ==
    IF timelineNeeded(date, time)
    THEN <<[time |-> Join(FilterTruthy(<<IF date # NA THEN date ELSE <<>>,
                                        IF time # NA THEN time ELSE <<>>>>), <<" ">>),
            event |-> <<"F","I","R"," ","r","e","g","i","s","t","e","r","e","d">>]>>
    ELSE <<>>

\* the return statement; a TypeError raised by an evaluated member access aborts the call
summaryOf(policeStation, firNumber, date, time, complainant, accused, names, investigatingOfficer, sections, location) ==
    IF TypeError \in {complainant, accused, investigatingOfficer, location} \/ Thrown(names)
    THEN [completion |-> "throw", value |-> TypeError]
    ELSE [completion |-> "return",
          overview |-> overviewOf(policeStation, location, firNumber, date, time),
          keyPoints |-> keyPointsOf(complainant, accused, location, sections, investigatingOfficer),
          entities |-> [firNumber |-> orNA(firNumber),
                        policeStation |-> orNA(policeStation),
                        date |-> orNA(date),
                        time |-> orNA(time),
                        complainant |-> orNA(complainant),
                        accused |-> orNA(accused),
                        witnesses |-> ArrayFromSet(names),
                        sections |-> sections,
                        location |-> orNA(location),
                        investigatingOfficer |-> orNA(investigatingOfficer)],
          timeline |-> timelineOf(date, time)]

\* the fields that need the police station already extracted
located(flat, policeStation, firNumber, date, time, complainant, accused, names, investigatingOfficer, sections) ==
    summaryOf(policeStation, firNumber, date, time, complainant, accused, names,
              investigatingOfficer, sections, locationOf(flat, policeStation))

\* the time with the bare clock pattern tried before the labelled ones
timeOfBareFirst(flat) == pick(<<TimeRe3, TimeRe1, TimeRe2>>, flat, 1, NA)

\* const time = pick([/\bTime.../i, /\b(?:at|around).../i, /\b([0-9]{1,2}[:.][0-9]{2}).../i], flat)
timeOf(flat) == pick(<<TimeRe1, TimeRe2, TimeRe3>>, flat, 1, NA)

\* the extractions from text (line breaks kept) and flat (white space collapsed)
extract(text, flat) ==
    located(flat,
            pick(<<PoliceStationRe>>, flat, 1, NA),
            pick(<<FirNumberRe1, FirNumberRe2>>, flat, 1, NA),
            pick(<<DateRe>>, flat, 1, NA),
            timeOf(flat),
            complainantOf(nameInBlock(complainantBlock(text), NameChars),
                          flat),
            accusedOf(nameInBlock(accusedBlock(text), AccusedChars), flat),
            pushed(blockWitnesses(Split(witnessesBlock(text), NewlineRe)),
                   flat),
            investigatingOfficerOf(
                nameInBlock(ioBlock(text), WitnessChars),
                pick(<<IoInlineRe1, IoInlineRe2, IoInlineRe3>>, flat, 1, <<>>)),
            ArrayFromSet(sectionInsertions(text)))

\* const flat = text.replace(/[ \t]+/g, " ").trim()
normalized(text) == extract(text, Trim(ReplaceAll(text, BlanksRe, <<" ">>)))

parseFIR(raw) == IF isBlank(raw) THEN empty ELSE normalized(ReplaceAll(raw, CrLfRe, <<"\n">>))

\* the blocks of the call, with the text they are cut from
blocksOf(text) ==
    [completion |-> "cut",
     text |-> text,
     complainantBlock |-> complainantBlock(text),
     accusedBlock |-> accusedBlock(text),
     witnessesBlock |-> witnessesBlock(text),
     ioBlock |-> ioBlock(text)]

\* parseFIR up to its blocks: none for a blank text, which returns before them
parseBlocks(raw) ==
    IF isBlank(raw) THEN [completion |-> "return"] ELSE blocksOf(ReplaceAll(raw, CrLfRe, <<"\n">>))
(***************************************************************************)
(* The state: the component CaseSummaryView, the text handed to            *)
(* SummaryCard and what it rendered                                        *)
(***************************************************************************)
VARIABLES
    cases,          \* useState([]): the case ids of the side bar
    selectedCase,   \* useState(null)
    summary,        \* useState("")
    loading,        \* useState(false)
    casesFetch,     \* the fetch of the case list of useEffect: "none", "pending" or "settled"
    calls,          \* the calls of handleSelectCase, in the order they were made
    summaryText,    \* the summaryText prop of the SummaryCard on screen
    parsed,         \* const parsed = parseFIR(summaryText) of that SummaryCard
    blocks          \* the blocks a call of parseFIR has cut out of its text with sliceBetween

viewVars == <<cases, selectedCase, summary, loading, casesFetch, calls>>

vars == <<cases, selectedCase, summary, loading, casesFetch, calls, summaryText, parsed, blocks>>

\* SummaryCard has not rendered yet
NotRendered == [completion |-> "none"]

\* parseFIR has not cut its blocks yet
NotSliced == [completion |-> "none"]

\* selectedCase before any selection
NoCase == "null"

\* CaseSummaryView is not mounted: a SummaryCard is rendered on its own
NotMounted ==
    /\ cases = <<>>
    /\ selectedCase = NoCase
    /\ summary = <<>>
    /\ loading = FALSE
    /\ casesFetch = "none"
    /\ calls = <<>>

RECURSIVE Flatten(_)
Flatten(fs) == IF fs = <<>> THEN <<>> ELSE Head(fs) \o Flatten(Tail(fs))

\* the sequences of at most n elements of a set
SeqsUpTo(S, n) == UNION {[1..k -> S] : k \in 0..n}

\* the texts made of at most n fragments
Texts(frags, n) == {Flatten(fs) : fs \in SeqsUpTo(frags, n)}

\* SummaryCard: const parsed = parseFIR(summaryText)
SummaryCard ==
    /\ parsed.completion = "none"
    /\ parsed' = parseFIR(summaryText)
    /\ UNCHANGED <<summaryText, viewVars, blocks>>

Next == SummaryCard

(***************************************************************************)
(* Spec: texts of scalar field mentions, blanks and line ends              *)
(***************************************************************************)
MaxFrags == 2

FieldFragments ==
    {<<" ">>, <<"\n">>, <<"\t">>,
     <<"P","o","l","i","c","e"," ","S","t","a","t","i","o","n",":"," ","C","i","t","y"," ","P","o","l","i","c","e"," ","S","t","a","t","i","o","n",","," ">>,
     <<"D","a","t","e",":"," ","1","5","/","0","9","/","2","0","2","4",","," ">>,
     <<"T","i","m","e",":"," ","1","8",":","3","0"," ","h","r","s">>,
     <<"F","I","R"," ","N","o","."," ","1","2","/","2","0","2","4","\r","\n">>,
     <<"P","o","l","i","c","e"," ","S","t","a","t","i","o","n"," ","\n","!">>,
     <<"C","o","m","p","l","a","i","n","a","n","t",":"," ","R","a","v","i"," ","K","\n">>,
     <<"A","c","c","u","s","e","d"," ","N","a","m","e",":"," ","C","t","."," ","X","@","Y"," ","A","g","e"," ","3","\n">>,
     <<"I","O"," ","N","a","m","e",":"," ","S","u","b","-","I","n","s","p","e","c","t","o","r"," ","K","a","v","i",".">>,
     <<"a","t"," ","9",".","0","5"," ","p","m"," ","i","n"," ","G","a","n","d","h","i"," ","N","a","g","a","r">>,
     <<"L","o","c","a","t","i","o","n",":"," ","R"," ","."," ","S"," ","."," ","P","u","r","a","m"," ","S","u","r","v","e","y"," ","N","o"," ","1","2",","," ">>,
     <<"T","i","m","e",":"," ","9",".","0","5","\n","p","m">>,
     <<"I","P","C"," ","S","e","c","t","i","o","n"," ","3","7","9"," ","a","n","d"," ","S","e","c","t","i","o","n"," ","4","4","7"," ","I","P","C","."," ">>}

Init ==
    /\ summaryText \in Texts(FieldFragments, MaxFrags)
    /\ parsed = NotRendered
    /\ blocks = NotSliced
    /\ NotMounted

Spec == Init /\ [][Next]_vars

(***************************************************************************)
(* SpecLists: texts of section citations and witness lists                 *)
(***************************************************************************)
ListFragments ==
    {<<"I","P","C"," ","S","e","c","t","i","o","n"," ","3","7","9"," ">>, <<"S","e","c","t","i","o","n"," ","3","7","9"," ","I","P","C">>, <<"s","e","c","t","i","o","n"," ","4","4","7"," ","i","p","c",","," ">>, <<"i","p","c"," ","s","e","c","t","i","o","n"," ","4","4","1",".">>,
     <<" ","a","n","d"," ">>,
     <<"W","i","t","n","e","s","s","e","s",":"," ","S","I"," ","A","m","i","t"," ","S","i","n","g","h",","," ","P","r","i","y","a"," ","R","a","o">>, <<" ","a","n","d"," ","A","m","i","t"," ","S","i","n","g","h",".">>,
     <<"5","."," ","W","i","t","n","e","s","s","e","s",":","\n">>, <<"-"," ","P","r","i","y","a"," ","R","a","o","\n">>, <<"2","."," ","P","r","i","y","a"," ","R","a","o",","," ","D","e","s","i","g","n","a","t","i","o","n",":"," ","C","l","e","r","k","\n","-"," ","C","t","."," ","M","o","h","a","n","\n">>,
     <<"6","."," ","S","e","c","t","i","o","n","s","\n">>}

InitLists ==
    /\ summaryText \in Texts(ListFragments, MaxFrags)
    /\ parsed = NotRendered
    /\ blocks = NotSliced
    /\ NotMounted

SpecLists == InitLists /\ [][Next]_vars

(***************************************************************************)
(* SpecWitnessBlock: a "5. Witnesses" block of entry lines                 *)
(***************************************************************************)
MaxEntries == 2

WitnessHeading == <<"5","."," ","W","i","t","n","e","s","s","e","s","\n">>

WitnessEntryLines ==
    {<<"1","."," ","S","I"," ","A","m","i","t"," ","S","i","n","g","h",","," ","D","e","s","i","g","n","a","t","i","o","n",":"," ","S","e","c","u","r","i","t","y","\n">>,
     <<"2","."," ","P","r","i","y","a"," ","R","a","o","\n">>,
     <<"-"," ","I","n","s","p","e","c","t","o","r"," ","D","a","s"," ","R","a","n","k",":"," ","C","I","\n">>,
     <<"3","."," ","C","t","."," ","M","o","h","a","n"," ","P","o","l","i","c","e"," ","S","t","a","t","i","o","n",":"," ","T","o","w","n","\n">>,
     <<"K","a","v","i"," ","A","g","e"," ","4","0","\n">>,
     <<"4","."," ","A","S","I"," ","K"," ","L","a","t","h","a","."," ","M","o","b","i","l","e"," ","9","8","\n">>,
     <<"-"," ","H","C"," "," ","R","a","v","i"," "," "," ","K","u","m","a","r","\n">>,
     <<"5","."," ","N","a","m","e",":"," ","A","n","i","l",","," ","A","d","d","r","e","s","s",":"," ","B","l","o","c","k"," ","4","\n">>}

WitnessEndings == {<<"6","."," ","S","e","c","t","i","o","n","s">>, <<>>}

WitnessBlockText(es, ending) == WitnessHeading \o Flatten(es) \o ending

InitWitnessBlock ==
    /\ \E es \in SeqsUpTo(WitnessEntryLines, MaxEntries), ending \in WitnessEndings :
          summaryText = WitnessBlockText(es, ending)
    /\ parsed = NotRendered
    /\ blocks = NotSliced
    /\ NotMounted

SpecWitnessBlock == InitWitnessBlock /\ [][Next]_vars

(***************************************************************************)
(* SpecParties: a "1. Complainant Details" and a "2. Accused Details" block *)
(***************************************************************************)
MaxLines == 1

ComplainantHeading == <<"1","."," ","C","o","m","p","l","a","i","n","a","n","t"," ","D","e","t","a","i","l","s","\n">>

AccusedHeading == <<"2","."," ","A","c","c","u","s","e","d"," ","D","e","t","a","i","l","s","\n">>

PartyLines ==
    {<<"N","a","m","e",":"," ","R","a","j","e","s","h"," ","K","u","m","a","r",","," ","A","g","e",":"," ","3","4","\n">>,
     <<"N","a","m","e",":"," ","U","n","k","n","o","w","n","\n">>,
     <<"A","g","e",":"," ","4","2","."," ","N","a","m","e",":"," ","R","a","v","i","\n">>,
     <<"A","g","e",":"," ","2","3","."," ","N","a","m","e",":"," ","M","a","n","i","\n">>,
     <<"A","d","d","r","e","s","s",":"," ","M","G"," ","R","o","a","d","\n">>,
     <<"C","o","m","p","l","a","i","n","a","n","t",":"," ","R","a","v","i"," ","K","\n">>,
     <<"A","c","c","u","s","e","d"," ","N","a","m","e",":"," ","X","@","Y","\n">>,
     <<"N","a","m","e",":"," ","A","r","u","n"," ","A","d","d","r","e","s","s",":"," ","M","G"," ","R","o","a","d","\n">>}

PartiesText(cl, al) == ComplainantHeading \o Flatten(cl) \o AccusedHeading \o Flatten(al)

InitParties ==
    /\ \E cl \in SeqsUpTo(PartyLines, MaxLines), al \in SeqsUpTo(PartyLines, MaxLines) :
          summaryText = PartiesText(cl, al)
    /\ parsed = NotRendered
    /\ blocks = NotSliced
    /\ NotMounted

SpecParties == InitParties /\ [][Next]_vars


(***************************************************************************)
(* SpecView: the component CaseSummaryView, its case list, the selections  *)
(* of the user and the fetches they start                                  *)
(***************************************************************************)
MaxSelections == 3

\* the case ids the server lists (GET /api/cases)
ServerCases == <<"FIR_001", "FIR_002">>

CaseIds == {ServerCases[i] : i \in 1..Len(ServerCases)}

\* the summary the server holds for a case (GET /api/result/<caseId>)
ServerSummary(caseId) ==
    IF caseId = "FIR_001"
    THEN <<"F","I","R"," ","N","o","."," ","1","2","/","2","0","2","4","\n","P","o","l","i","c","e"," ","S","t","a","t","i","o","n",":"," ","C","i","t","y"," ","P","o","l","i","c","e"," ","S","t","a","t","i","o","n",","," ","D","a","t","e",":"," ","1","5","/","0","9","/","2","0","2","4",","," ">>
    ELSE <<"C","o","m","p","l","a","i","n","a","n","t",":"," ","R","a","v","i"," ","K","\n","I","P","C"," ","S","e","c","t","i","o","n"," ","3","7","9"," ","T","i","m","e",":"," ","1","8",":","3","0"," ","h","r","s">>

\* data.summary of a response for a case: the summary, none, or an empty one
Bodies(caseId) == {ServerSummary(caseId), Undefined, <<>>}

\* the text set in place of a summary that could not be fetched
NoSummaryFound == <<"N","o"," ","s","u","m","m","a","r","y"," ","f","o","u","n","d",".">>

\* the summary panel (lines 396-415) rendered from the state: a SummaryCard only when a
\* case is selected and the component is not loading
Panel(selected, isLoading, text) ==
    IF selected = NoCase \/ isLoading
    THEN summaryText' = <<>> /\ parsed' = NotRendered
    ELSE summaryText' = text /\ parsed' = parseFIR(text)

\* useEffect: .then((data) => setCases(data.cases || []))
CasesLoaded ==
    /\ casesFetch = "pending"
    /\ \E list \in {ServerCases, <<>>} : cases' = list
    /\ casesFetch' = "settled"
    /\ UNCHANGED <<selectedCase, summary, loading, calls, blocks>>
    /\ Panel(selectedCase, loading, summary)

\* useEffect: .catch((err) => console.error(...))
CasesFailed ==
    /\ casesFetch = "pending"
    /\ casesFetch' = "settled"
    /\ UNCHANGED <<cases, selectedCase, summary, loading, calls, summaryText, parsed, blocks>>

\* a click on a case of the side bar: handleSelectCase up to its first await
handleSelectCase(caseId) ==
    /\ Len(calls) < MaxSelections
    /\ \E i \in 1..Len(cases) : cases[i] = caseId
    /\ selectedCase' = caseId
    /\ loading' = TRUE
    /\ calls' = Append(calls, [caseId |-> caseId, pc |-> "fetch", result |-> Undefined])
    /\ UNCHANGED <<cases, summary, casesFetch, blocks>>
    /\ Panel(caseId, TRUE, summary)

\* the call i sets the summary and, in finally, ends the loading
Settle(i, text) ==
    /\ summary' = text
    /\ loading' = FALSE
    /\ calls' = [calls EXCEPT ![i] = [caseId |-> calls[i].caseId, pc |-> "done", result |-> text]]
    /\ UNCHANGED <<cases, selectedCase, casesFetch, blocks>>
    /\ Panel(selectedCase, FALSE, text)

\* const res = await fetch(...) is fulfilled: the call goes on to await res.json()
FetchFulfilled(i) ==
    /\ calls[i].pc = "fetch"
    /\ calls' = [calls EXCEPT ![i] = [caseId |-> calls[i].caseId, pc |-> "json", result |-> Undefined]]
    /\ UNCHANGED <<cases, selectedCase, summary, loading, casesFetch, summaryText, parsed, blocks>>

\* await fetch(...) is rejected (a network error): catch, then finally
FetchRejected(i) == calls[i].pc = "fetch" /\ Settle(i, NoSummaryFound)

\* const data = await res.json() is fulfilled: setSummary(data.summary || "No summary found.")
JsonFulfilled(i) ==
    /\ calls[i].pc = "json"
    /\ \E body \in Bodies(calls[i].caseId) : Settle(i, Or(body, NoSummaryFound))

\* await res.json() is rejected (the body is not JSON): catch, then finally
JsonRejected(i) == calls[i].pc = "json" /\ Settle(i, NoSummaryFound)

NextView ==
    \/ CasesLoaded
    \/ CasesFailed
    \/ \E caseId \in CaseIds : handleSelectCase(caseId)
    \/ \E i \in 1..Len(calls) : FetchFulfilled(i)
    \/ \E i \in 1..Len(calls) : FetchRejected(i)
    \/ \E i \in 1..Len(calls) : JsonFulfilled(i)
    \/ \E i \in 1..Len(calls) : JsonRejected(i)

\* the component after its first render: the effect has started the fetch of the cases
InitView ==
    /\ cases = <<>>
    /\ selectedCase = NoCase
    /\ summary = <<>>
    /\ loading = FALSE
    /\ casesFetch = "pending"
    /\ calls = <<>>
    /\ summaryText = <<>>
    /\ parsed = NotRendered
    /\ blocks = NotSliced

SpecView == InitView /\ [][NextView]_vars

(***************************************************************************)
(* SpecBlocks: texts of numbered headings, and the blocks cut out of them   *)
(***************************************************************************)
BlockFragments ==
    {<<"1","."," ","C","o","m","p","l","a","i","n","a","n","t"," ","D","e","t","a","i","l","s","\n">>,
     <<"N","a","m","e",":"," ","R","a","j","e","s","h"," ","K","u","m","a","r",","," ","A","g","e",":"," ","3","4","\n">>,
     <<"2","."," ","A","c","c","u","s","e","d"," ","D","e","t","a","i","l","s","\n">>,
     <<"A","g","e",":"," ","4","2","."," ","N","a","m","e",":"," ","R","a","v","i","\n">>,
     <<"3","."," ","I","n","c","i","d","e","n","t","\n">>,
     <<"5","."," ","W","i","t","n","e","s","s","e","s","\n">>,
     <<"-"," ","P","r","i","y","a"," ","R","a","o","\n">>,
     <<"6","."," ","S","e","c","t","i","o","n","s","\r","\n">>,
     <<"7","."," "," ","i","n","v","e","s","t","i","g","a","t","i","n","g"," ","o","f","f","i","c","e","r"," ","N","a","m","e",":"," ","R","."," ","D","a","s"," ">>,
     <<"8",".">>}

\* parseFIR cuts its four blocks out of the text
SliceBlocks ==
    /\ blocks.completion = "none"
    /\ blocks' = parseBlocks(summaryText)
    /\ UNCHANGED <<summaryText, parsed, viewVars>>

NextBlocks == SliceBlocks

InitBlocks ==
    /\ summaryText \in Texts(BlockFragments, MaxFrags)
    /\ parsed = NotRendered
    /\ blocks = NotSliced
    /\ NotMounted

SpecBlocks == InitBlocks /\ [][NextBlocks]_vars

(***************************************************************************)
(* SpecLocation: texts that mention a place in the ways parseFIR looks for *)
(***************************************************************************)
LocationFragments ==
    {<<"L","o","c","a","t","i","o","n",":"," ","R"," ","."," ","S"," ","."," ","P","u","r","a","m"," ","S","u","r","v","e","y"," ","N","o"," ","1","2",","," ">>,
     <<"P","o","l","i","c","e"," ","S","t","a","t","i","o","n"," ","(","B","h","a","r","a","t","h","i"," "," ","N","a","g","a","r",")"," ">>,
     <<"P","o","l","i","c","e"," ","S","t","a","t","i","o","n",":"," ","C","i","t","y"," ","P","o","l","i","c","e"," ","S","t","a","t","i","o","n",","," ">>,
     <<"i","n"," ","G","a","n","d","h","i"," ","B","a","z","a","a","r",","," ">>,
     <<"L","o","c","a","t","i","o","n",":"," ","F","I","R"," ","C","o","l","o","n","y",","," ">>,
     <<"a","t"," ","A","n","n","a"," ","N","a","g","a","r",","," ">>,
     <<"L","o","c","a","t","i","o","n",":"," ","S","u","r","v","e","y"," ","N","o"," ","5",","," ">>,
     <<"R",".","S","."," ","P","u","r","a","m"," ">>,
     <<"b","h","a","r","a","t","h","i"," ","n","a","g","a","r","\n">>,
     <<"L","o","c","a","t","i","o","n",":"," ","\n">>,
     <<"a","t"," ","t","h","e"," ","F","i","r","s","t"," ","M","a","i","n"," ","R","o","a","d",",","\n">>}

InitLocation ==
    /\ summaryText \in Texts(LocationFragments, MaxFrags)
    /\ parsed = NotRendered
    /\ blocks = NotSliced
    /\ NotMounted

SpecLocation == InitLocation /\ [][Next]_vars

(***************************************************************************)
(* SpecTime: texts that mention a clock time in the ways parseFIR looks for *)
(***************************************************************************)
TimeFragments ==
    {<<"T","i","m","e",":"," ","1","8",":","3","0"," ","h","r","s"," ">>,
     <<"a","t"," ","9",".","0","5"," ","p","m"," ">>,
     <<"a","r","o","u","n","d"," ","7",":","1","5","A","M",","," ">>,
     <<"1","0",":","4","5"," ","h","o","u","r","s"," ">>,
     <<"T","i","m","e","-"," ","6",":","5"," ">>,
     <<"a","t"," ","6",".","3","0","\n","P","m">>,
     <<"T","i","m","e",":"," ","n","o","o","n"," ">>,
     <<"D","a","t","e",":"," ","1","5",".","0","9",".","2","0","2","4"," ">>,
     <<"F","I","R"," ","N","o","."," ","1","2","/","2","0","2","4","\n">>,
     <<" ">>}

InitTime ==
    /\ summaryText \in Texts(TimeFragments, MaxFrags)
    /\ parsed = NotRendered
    /\ blocks = NotSliced
    /\ NotMounted

SpecTime == InitTime /\ [][Next]_vars
(***************************************************************************)
(* Properties                                                              *)
(***************************************************************************)
Rendered == parsed.completion # "none"

Returned == parsed.completion = "return"

\* the characters of the texts
Chars ==
    Alpha \cup Digit \cup Space
    \cup {"_", ".", ",", ":", ";", "-", "/", "@", "&", "'", "(", ")", "!", EnDash}

\* a JavaScript string, as opposed to undefined or a thrown error
IsString(v) == v # Undefined /\ v # TypeError /\ \A i \in 1..Len(v) : v[i] \in Chars

IsStringArray(a) == \A i \in 1..Len(a) : IsString(a[i])

NoDuplicates(a) == \A i, j \in 1..Len(a) : a[i] = a[j] => i = j

ScalarFields ==
    {"firNumber", "policeStation", "date", "time", "complainant", "accused", "location",
     "investigatingOfficer"}

\* the text has no character other than white space (the empty text included)
OnlyWhiteSpace(t) == \A i \in 1..Len(t) : t[i] \in Space

\* C1: for an empty or whitespace-only text parseFIR returns the canonical empty summary:
\* overview "FIR summary not available.", no key points, every scalar entity "N/A",
\* no witnesses, no sections, no timeline entry.
C1_BlankGivesEmptySummary ==
    (Rendered /\ OnlyWhiteSpace(summaryText)) =>
        /\ Returned
        /\ parsed.overview = <<"F","I","R"," ","s","u","m","m","a","r","y"," ","n","o","t"," ","a","v","a","i","l","a","b","l","e",".">>
        /\ parsed.keyPoints = <<>>
        /\ \A f \in ScalarFields : parsed.entities[f] = <<"N","/","A">>
        /\ parsed.entities.witnesses = <<>>
        /\ parsed.entities.sections = <<>>
        /\ parsed.timeline = <<>>

C1_Witness ==
    /\ Rendered
    /\ summaryText # <<>>
    /\ OnlyWhiteSpace(summaryText)
    /\ parsed.overview = <<"F","I","R"," ","s","u","m","m","a","r","y"," ","n","o","t"," ","a","v","a","i","l","a","b","l","e",".">>

\* C2: every scalar field of the returned entities is present and is a string that is
\* an extracted (non-empty) value or exactly "N/A", whichever patterns matched or failed.
C2_ScalarFieldsAlwaysStrings ==
    Rendered =>
        /\ Returned
        /\ ScalarFields \subseteq DOMAIN parsed.entities
        /\ \A f \in ScalarFields : IsString(parsed.entities[f]) /\ parsed.entities[f] # <<>>

\* a text whose Police Station capture is a lone blank, next to one with extracted fields
C2_Witness ==
    /\ Rendered
    /\ \/ summaryText = <<"P","o","l","i","c","e"," ","S","t","a","t","i","o","n"," ","\n","!">> /\ parsed.entities.policeStation = <<"N","/","A">>
       \/ /\ parsed.entities.date # <<"N","/","A">>
          /\ parsed.entities.policeStation # <<"N","/","A">>
          /\ parsed.entities.complainant = <<"N","/","A">>

\* C3: the returned witnesses and the returned sections each hold no two equal strings.
C3_NoDuplicateListEntries ==
    Rendered =>
        /\ NoDuplicates(parsed.entities.witnesses)
        /\ NoDuplicates(parsed.entities.sections)

\* the same witness named twice and the same section cited twice
C3_Witness ==
    /\ Rendered
    /\ \/ summaryText = <<"W","i","t","n","e","s","s","e","s",":"," ","S","I"," ","A","m","i","t"," ","S","i","n","g","h",","," ","P","r","i","y","a"," ","R","a","o"," ","a","n","d"," ","A","m","i","t"," ","S","i","n","g","h",".">>
          /\ parsed.entities.witnesses = <<<<"A","m","i","t"," ","S","i","n","g","h">>, <<"P","r","i","y","a"," ","R","a","o">>>>
       \/ summaryText = <<"I","P","C"," ","S","e","c","t","i","o","n"," ","3","7","9"," ","I","P","C"," ","S","e","c","t","i","o","n"," ","3","7","9"," ">>
          /\ parsed.entities.sections = <<<<"I","P","C"," ","3","7","9">>>>

\* the text parseFIR works on: the line ends unified
SourceText == ReplaceAll(summaryText, CrLfRe, <<"\n">>)

Min(S) == CHOOSE x \in S : \A y \in S : x <= y

\* the citations of the source text: where each starts, its shape and its number
Citations ==
    LET a == MatchAll(SourceText, IpcSectionRe)
        b == MatchAll(SourceText, SectionIpcRe)
    IN {[pos |-> a[i].index, shape |-> "IPC Section n", num |-> GroupOf(SourceText, a[i], 1)] :
           i \in 1..Len(a)}
       \cup {[pos |-> b[i].index, shape |-> "Section n IPC", num |-> GroupOf(SourceText, b[i], 1)] :
                i \in 1..Len(b)}

\* where section number n is cited first, in either shape
FirstCitation(n) == Min({c.pos : c \in {d \in Citations : d.num = n}})

\* the number of the entry "IPC <number>"
NumberOf(entry) == SubSeq(entry, 5, Len(entry))

\* where the witness list starts: the first "Witness" of the source text (0 when absent)
WitnessListStart == StrMatch(SourceText, Re(<<Lit(<<"W","i","t","n","e","s","s">>)>>, TRUE)).index

\* where a name first occurs in the witness list of the source text (0 when it does not)
FirstMention(name) ==
    IF WitnessListStart = 0 THEN 0
    ELSE ExecFrom(Re(<<Lit(name)>>, FALSE), SourceText, WitnessListStart).index

SectionsInTextOrder ==
    LET secs == parsed.entities.sections
    IN \A i, j \in 1..Len(secs) :
          i < j => FirstCitation(NumberOf(secs[i])) < FirstCitation(NumberOf(secs[j]))

WitnessesInTextOrder ==
    LET ws == parsed.entities.witnesses
    IN \A i, j \in 1..Len(ws) :
          i < j => (FirstMention(ws[i]) > 0 /\ FirstMention(ws[i]) < FirstMention(ws[j]))

\* C4: the entries of sections and of witnesses are ordered as their first occurrences
\* in the source text, whichever of the two citation shapes a section uses.
C4_ListsInFirstOccurrenceOrder ==
    Returned => (SectionsInTextOrder /\ WitnessesInTextOrder)

\* C6: parseFIR returns, for every text, without throwing, a record with overview,
\* keyPoints, entities and timeline populated; a failed extraction shows as "N/A" or as
\* an empty list only.
C6_TotalAndFullyPopulated ==
    Rendered =>
        /\ Returned
        /\ {"overview", "keyPoints", "entities", "timeline"} \subseteq DOMAIN parsed
        /\ IsString(parsed.overview) /\ parsed.overview # <<>>
        /\ IsStringArray(parsed.keyPoints)
        /\ DOMAIN parsed.entities = ScalarFields \cup {"witnesses", "sections"}
        /\ IsStringArray(parsed.entities.witnesses)
        /\ IsStringArray(parsed.entities.sections)
        /\ \A i \in 1..Len(parsed.timeline) :
              IsString(parsed.timeline[i].time) /\ IsString(parsed.timeline[i].event)

\* a text in which no block and no list is found
C6_Witness ==
    /\ Returned
    /\ ~OnlyWhiteSpace(summaryText)
    /\ parsed.entities.complainant = <<"N","/","A">>
    /\ parsed.entities.investigatingOfficer = <<"N","/","A">>
    /\ parsed.entities.witnesses = <<>>
    /\ Len(parsed.keyPoints) = 5

\* C7: timeline has at most one entry, and has one exactly when entities.date or
\* entities.time is not "N/A"; its event is "FIR registered" and its time is the
\* non-"N/A" values among date and time, date first, joined by one space.
C7_TimelineFollowsDateAndTime ==
    Returned =>
        LET d == parsed.entities.date
            tm == parsed.entities.time
            tl == parsed.timeline
        IN /\ Len(tl) <= 1
           /\ (Len(tl) = 1) <=> (d # <<"N","/","A">> \/ tm # <<"N","/","A">>)
           /\ Len(tl) = 1 =>
                 /\ tl[1].event = <<"F","I","R"," ","r","e","g","i","s","t","e","r","e","d">>
                 /\ tl[1].time = (IF d # <<"N","/","A">> /\ tm # <<"N","/","A">> THEN d \o <<" ">> \o tm
                                  ELSE IF d # <<"N","/","A">> THEN d ELSE tm)

\* a date alone, and a date with a time
C7_Witness ==
    /\ Returned
    /\ \/ /\ parsed.entities.date = <<"1","5","/","0","9","/","2","0","2","4">>
          /\ parsed.entities.time = <<"N","/","A">>
          /\ parsed.timeline = <<[time |-> <<"1","5","/","0","9","/","2","0","2","4">>, event |-> <<"F","I","R"," ","r","e","g","i","s","t","e","r","e","d">>]>>
       \/ /\ parsed.entities.date = <<"1","5","/","0","9","/","2","0","2","4">>
          /\ parsed.entities.time = <<"1","8",":","3","0">>
          /\ parsed.timeline = <<[time |-> <<"1","5","/","0","9","/","2","0","2","4"," ","1","8",":","3","0">>, event |-> <<"F","I","R"," ","r","e","g","i","s","t","e","r","e","d">>]>>

\* the witness block of the specification's example
WitnessExample ==
    <<"5","."," ","W","i","t","n","e","s","s","e","s","\n","1","."," ","S","I"," ","A","m","i","t"," ","S","i","n","g","h",","," ","D","e","s","i","g","n","a","t","i","o","n",":"," ","S","e","c","u","r","i","t","y","\n","2","."," ","P","r","i","y","a"," ","R","a","o","\n","6","."," ","S","e","c","t","i","o","n","s">>

\* C8: for the block "5. Witnesses / 1. SI Amit Singh, Designation: Security /
\* 2. Priya Rao / 6. Sections" witnesses is ["Amit Singh", "Priya Rao"] and nothing else.
C8_WitnessBlockExample ==
    (Rendered /\ summaryText = WitnessExample) =>
        (Returned /\ parsed.entities.witnesses = <<<<"A","m","i","t"," ","S","i","n","g","h">>, <<"P","r","i","y","a"," ","R","a","o">>>>)

IsCanonicalSection(entry) ==
    /\ Len(entry) > 4
    /\ SubSeq(entry, 1, 4) = <<"I","P","C"," ">>
    /\ \A i \in 5..Len(entry) : entry[i] \in Digit

\* C9: every entry of sections is "IPC <number>", and a section number cited in either
\* or both shapes yields exactly one entry; a text citing 379 in both shapes and
\* nothing else gives ["IPC 379"].
C9_SectionsCanonicalAndMerged ==
    Returned =>
        LET secs == parsed.entities.sections
        IN /\ \A i \in 1..Len(secs) : IsCanonicalSection(secs[i])
           /\ \A c \in Citations :
                 Cardinality({i \in 1..Len(secs) : secs[i] = <<"I","P","C"," ">> \o c.num}) = 1
           /\ ({c.num : c \in Citations} = {<<"3","7","9">>}
                  /\ {c.shape : c \in Citations} = {"IPC Section n", "Section n IPC"})
                 => secs = <<<<"I","P","C"," ","3","7","9">>>>

\* 379 cited in both shapes
C9_Witness ==
    /\ Returned
    /\ summaryText = <<"I","P","C"," ","S","e","c","t","i","o","n"," ","3","7","9"," ","S","e","c","t","i","o","n"," ","3","7","9"," ","I","P","C">>
    /\ parsed.entities.sections = <<<<"I","P","C"," ","3","7","9">>>>

\* the flat text parseFIR matches its inline patterns on
FlatText == Trim(ReplaceAll(SourceText, BlanksRe, <<" ">>))

\* the chain of C10 on a heading-delimited block: the value after the first "Name:"
\* label of the block, else the flat-text pattern, else "N/A"
PartyChain(block, who, chars) ==
    orNA(Trim(Or(Or(OptIndex(block, StrMatch(block, BlockNameRe(chars)), 1),
                    pick(<<FlatPartyRe(who, chars)>>, FlatText, 1, NA)), NA)))

PartiesExample ==
    <<"1","."," ","C","o","m","p","l","a","i","n","a","n","t"," ","D","e","t","a","i","l","s","\n","N","a","m","e",":"," ","R","a","j","e","s","h"," ","K","u","m","a","r",","," ","A","g","e",":"," ","3","4","\n","2","."," ","A","c","c","u","s","e","d"," ","D","e","t","a","i","l","s","\n","N","a","m","e",":"," ","U","n","k","n","o","w","n","\n">>

\* C10: complainant and accused are the value after the first "Name:" label inside their
\* own block ("1. Complainant Details" up to the next heading, "2. Accused Details" up to
\* the next heading), else the flat-text "Complainant/Accused [Name|Details]:" value,
\* else "N/A"; the example text gives "Rajesh Kumar" and "Unknown".
C10_PartiesFromTheirOwnBlocks ==
    Rendered =>
        /\ Returned
        /\ \A cl \in SeqsUpTo(PartyLines, MaxLines), al \in SeqsUpTo(PartyLines, MaxLines) :
              summaryText = PartiesText(cl, al) =>
                 /\ parsed.entities.complainant
                       = PartyChain(ComplainantHeading \o Flatten(cl), <<"C","o","m","p","l","a","i","n","a","n","t">>, NameChars)
                 /\ parsed.entities.accused
                       = PartyChain(AccusedHeading \o Flatten(al), <<"A","c","c","u","s","e","d">>, AccusedChars)
        /\ summaryText = PartiesExample =>
              /\ parsed.entities.complainant = <<"R","a","j","e","s","h"," ","K","u","m","a","r">>
              /\ parsed.entities.accused = <<"U","n","k","n","o","w","n">>


\* the police rank and title tokens of the name cleanup
RankTokens == {<<"S","I">>, <<"A","S","I">>, <<"H","C">>, <<"P","C">>, <<"C","t">>, <<"I","n","s","p","e","c","t","o","r">>, <<"S","u","b","-","I","n","s","p","e","c","t","o","r">>}

\* the first k characters of a text, letter case folded
FoldedPrefix(v, k) == [i \in 1..k |-> Fold(v[i])]

\* the text starts with a rank token (in any letter case, with or without a period)
\* that white space separates from what follows
StartsWithRank(v) ==
    \E r \in RankTokens :
        /\ Len(v) > Len(r) + 1
        /\ FoldedPrefix(v, Len(r)) = FoldedPrefix(r, Len(r))
        /\ \/ v[Len(r) + 1] \in Space
           \/ v[Len(r) + 1] = "." /\ v[Len(r) + 2] \in Space

NameFields == {"complainant", "accused", "investigatingOfficer"}

\* C11: every name-like field returned by parseFIR (complainant, accused,
\* investigatingOfficer and each witness) has passed the name cleanup, so that no
\* returned name starts with a rank token followed by the person's name.
C11_NamesAreRankStripped ==
    Returned =>
        /\ \A f \in NameFields : ~StartsWithRank(parsed.entities[f])
        /\ \A i \in 1..Len(parsed.entities.witnesses) :
              ~StartsWithRank(parsed.entities.witnesses[i])

\* the parts of the overview sentence as the returned entities give them
EntityOverviewParts ==
    LET e == parsed.entities
    IN <<<<"F","I","R"," ","r","e","g","i","s","t","e","r","e","d">>>>
       \o (IF e.policeStation # <<"N","/","A">> THEN <<<<"a","t"," ">> \o e.policeStation>> ELSE <<>>)
       \o (IF e.location # <<"N","/","A">> /\ e.location # e.policeStation
           THEN <<<<"(">> \o e.location \o <<")">>>> ELSE <<>>)
       \o (IF e.firNumber # <<"N","/","A">> THEN <<<<"F","I","R"," ","N","o",":"," ">> \o e.firNumber>> ELSE <<>>)
       \o (IF e.date # <<"N","/","A">> THEN <<<<"D","a","t","e",":"," ">> \o e.date>> ELSE <<>>)
       \o (IF e.time # <<"N","/","A">> THEN <<<<"T","i","m","e",":"," ">> \o e.time>> ELSE <<>>)

\* a text with every run of white space turned into one space
SingleSpaced(t) == ReplaceAll(t, SpacesRe, <<" ">>)

\* C12 (as claimed): for a non-blank text the overview is "FIR registered" followed, in
\* this order and joined by single spaces, by "at <policeStation>", "(<location>)" when
\* it differs from the police station, "FIR No: <firNumber>", "Date: <date>" and
\* "Time: <time>", each only for a field that is not "N/A", each value being the one
\* returned in entities.
C12_OverviewFromEntities ==
    (Returned /\ ~OnlyWhiteSpace(summaryText)) =>
        parsed.overview = Join(EntityOverviewParts, <<" ">>)

\* C12 (amended): the overview is that sentence with every run of white space in it,
\* also one inside a value, turned into a single space.
C12_OverviewSingleSpaced ==
    (Returned /\ ~OnlyWhiteSpace(summaryText)) =>
        parsed.overview = SingleSpaced(Join(EntityOverviewParts, <<" ">>))

\* a location equal to the police station is not repeated, and a time that holds a
\* line break is shown with a space
C12_Witness ==
    /\ Returned
    /\ \/ /\ parsed.entities.policeStation = <<"C","i","t","y"," ","P","o","l","i","c","e"," ","S","t","a","t","i","o","n">>
          /\ parsed.entities.location = <<"C","i","t","y"," ","P","o","l","i","c","e"," ","S","t","a","t","i","o","n">>
          /\ parsed.entities.date = <<"1","5","/","0","9","/","2","0","2","4">>
          /\ parsed.overview = <<"F","I","R"," ","r","e","g","i","s","t","e","r","e","d"," ","a","t"," ","C","i","t","y"," ","P","o","l","i","c","e"," ","S","t","a","t","i","o","n"," ","D","a","t","e",":"," ","1","5","/","0","9","/","2","0","2","4">>
       \/ /\ parsed.entities.time = <<"9",".","0","5","\n","p","m">>
          /\ parsed.overview = <<"F","I","R"," ","r","e","g","i","s","t","e","r","e","d"," ","T","i","m","e",":"," ","9",".","0","5"," ","p","m">>

\* the key points as the returned entities give them
EntityKeyPoints ==
    LET e == parsed.entities
    IN <<<<"C","o","m","p","l","a","i","n","a","n","t"," ">> \o <<EnDash>> \o <<" ">> \o e.complainant,
         <<"A","c","c","u","s","e","d"," ">> \o <<EnDash>> \o <<" ">> \o e.accused,
         <<"L","o","c","a","t","i","o","n"," ">> \o <<EnDash>> \o <<" ">> \o e.location,
         <<"S","e","c","t","i","o","n","s"," ">> \o <<EnDash>> \o <<" ">>
             \o (IF e.sections = <<>> THEN <<"N","/","A">> ELSE Join(e.sections, <<","," ">>)),
         <<"I","n","v","e","s","t","i","g","a","t","i","n","g"," ","O","f","f","i","c","e","r"," ">> \o <<EnDash>> \o <<" ">> \o e.investigatingOfficer>>

\* C13: for a non-blank text keyPoints has exactly five entries, in the order complainant,
\* accused, location, sections, investigating officer; each shows the value entities
\* returns for its field ("N/A" when it was not found), the sections entry the list
\* joined by ", " or "N/A" when the list is empty.
C13_KeyPointsFollowEntities ==
    (Returned /\ ~OnlyWhiteSpace(summaryText)) =>
        /\ Len(parsed.keyPoints) = 5
        /\ parsed.keyPoints = EntityKeyPoints

\* two sections next to a name, and a text with no section and no name
C13_Witness ==
    /\ Returned
    /\ \/ /\ parsed.entities.sections = <<<<"I","P","C"," ","3","7","9">>, <<"I","P","C"," ","4","4","7">>>>
          /\ parsed.entities.complainant = <<"R","a","v","i"," ","K">>
          /\ parsed.keyPoints[1] = <<"C","o","m","p","l","a","i","n","a","n","t"," ">> \o <<EnDash>> \o <<" ","R","a","v","i"," ","K">>
          /\ parsed.keyPoints[4] = <<"S","e","c","t","i","o","n","s"," ">> \o <<EnDash>> \o <<" ","I","P","C"," ","3","7","9",","," ","I","P","C"," ","4","4","7">>
       \/ /\ parsed.entities.sections = <<>>
          /\ parsed.entities.investigatingOfficer = <<"S","u","b","-","I","n","s","p","e","c","t","o","r"," ","K","a","v","i">>
          /\ parsed.keyPoints[4] = <<"S","e","c","t","i","o","n","s"," ">> \o <<EnDash>> \o <<" ","N","/","A">>

\* the call of handleSelectCase made for the current selection: the last one made
CurrentCall == calls[Len(calls)]

\* the fetch of the current selection has failed or has brought no summary
FetchGaveNoSummary ==
    /\ selectedCase # NoCase
    /\ CurrentCall.pc = "done"
    /\ CurrentCall.result = NoSummaryFound

\* C14: when the fetch of a case's summary fails upstream (a network error, or a response
\* with no summary) the view does not invoke parseFIR on the placeholder text: nothing
\* derived from parsing is shown for that case.
C14_NoParseOfMissingSummary ==
    (FetchGaveNoSummary /\ ~loading) => (parsed = NotRendered /\ summaryText # NoSummaryFound)

\* the start and end patterns of the four blocks of parseFIR
BlockPatterns ==
    [complainantBlock |-> <<ComplainantHeadRe, EndRe("2")>>,
     accusedBlock |-> <<AccusedHeadRe, EndRe("3")>>,
     witnessesBlock |-> <<WitnessHeadRe, EndRe("6")>>,
     ioBlock |-> <<IoHeadRe, EndRe("8")>>]

\* the positions of a text at which a pattern matches
Occurrences(re, t) == {p \in 1..(Len(t) + 1) : Match(re.nodes, t, p, NoCaps, re.ci).end # -1}

\* what C15 says of the block cut from text t with a start and an end pattern
SliceAsClaimed(t, startRe, endRe) ==
    IF Occurrences(startRe, t) = {} THEN <<>>
    ELSE LET s == Min(Occurrences(startRe, t))
             ends == {q \in Occurrences(endRe, t) : q >= s}
         IN IF ends = {} THEN SubSeq(t, s, Len(t)) ELSE SubSeq(t, s, Min(ends) - 1)

\* C15: sliceBetween returns the empty string when the start pattern does not occur in
\* the text; otherwise the substring from the first occurrence of the start pattern up
\* to just before the first occurrence of the end pattern at or after that position, or
\* up to the end of the text; a result that is not empty begins with the start heading.
C15_SliceBetweenHeadings ==
    blocks.completion = "cut" =>
        \A b \in DOMAIN BlockPatterns :
            /\ blocks[b] = SliceAsClaimed(blocks.text, BlockPatterns[b][1], BlockPatterns[b][2])
            /\ blocks[b] # <<>> => 1 \in Occurrences(BlockPatterns[b][1], blocks[b])

\* a block ended by the next heading, one that runs to the end of the text, and one
\* whose heading is absent
C15_Witness ==
    /\ blocks.completion = "cut"
    /\ blocks.complainantBlock = <<"1","."," ","C","o","m","p","l","a","i","n","a","n","t"," ","D","e","t","a","i","l","s","\n">>
    /\ blocks.accusedBlock = <<"2","."," ","A","c","c","u","s","e","d"," ","D","e","t","a","i","l","s","\n">>
    /\ blocks.witnessesBlock = <<>>

\* the four tiers of the first location, highest first: the "Location:" label, the
\* parenthesised sub-locality after "Police Station", the police station, "at/in <phrase>"
LocationTiers == <<LocationLabelRe, SubLocalityRe, PoliceStationRe, AtInRe>>

\* what tier i captures in the flat text (undefined when its pattern does not match)
TierGroup(i) == OptIndex(FlatText, StrMatch(FlatText, LocationTiers[i]), 1)

\* the tiers that yield a value
Yielding == {i \in 1..Len(LocationTiers) : Truthy(TierGroup(i))}

\* the value of the highest tier that yields one (the empty text when none does)
FirstTierValue == IF Yielding = {} THEN <<>> ELSE Trim(TierGroup(Min(Yielding)))

\* the stricter match: "at/in <phrase ending in Puram, Nagar, Colony, Road, ...>"
SuffixValue == Trim(Or(OptIndex(FlatText, StrMatch(FlatText, LocalitySuffixRe), 1), <<>>))

\* the value after the second pass
SecondPassValue ==
    IF FirstTierValue = <<>> \/ ReTest(BoilerplateRe, FirstTierValue)
    THEN SuffixValue ELSE FirstTierValue

\* a known locality named in the text (undefined when there is none)
KnownLocalityInText ==
    Or(OptIndex(FlatText, StrMatch(FlatText, BharathiNagarRe), 0),
       OptIndex(FlatText, StrMatch(FlatText, RsPuramRe), 0))

\* the location the priority chain of C16 gives
LocationAsClaimed ==
    IF locationCleaned(SecondPassValue) # <<>> THEN locationCleaned(SecondPassValue)
    ELSE IF Truthy(KnownLocalityInText) THEN Trim(KnownLocalityInText)
         ELSE parsed.entities.policeStation

TimeTiers == <<TimeRe1, TimeRe2, TimeRe3>>

\* what alternative i captures in the flat text (undefined when it does not match)
TimeGroup(i) == OptIndex(FlatText, StrMatch(FlatText, TimeTiers[i]), 1)

TimeYielding == {i \in 1..Len(TimeTiers) : Truthy(TimeGroup(i))}

\* the time of the first alternative that matches, else "N/A"
FirstTimeAlternative ==
    IF TimeYielding = {} THEN <<"N","/","A">> ELSE Trim(TimeGroup(Min(TimeYielding)))

\* a clock time: one or two digits, a separator, two digits, and one of the suffixes or none
ClockShape(separators, suffixes) ==
    Re(<<Bol, Cls(Digit, FALSE, 1, 2, FALSE), One(separators), Cls(Digit, FALSE, 2, 2, FALSE),
         Star(Space), Alt(suffixes \o << <<>> >>), Eol>>, TRUE)

\* C17 (as claimed): entities.time is "N/A" or a clock time HH:MM, hours and minutes
\* separated by a colon, optionally suffixed by AM/PM or hrs, taken from the first
\* matching alternative: the "Time:" label, then "at/around HH:MM", then a bare HH:MM.
C17_TimeIsColonClock ==
    Returned =>
        /\ parsed.entities.time = FirstTimeAlternative
        /\ \/ parsed.entities.time = <<"N","/","A">>
           \/ ReTest(ClockShape({":"}, << <<Lit(<<"A","M">>)>>, <<Lit(<<"P","M">>)>>, <<Lit(<<"h","r","s">>)>> >>),
                     parsed.entities.time)

\* C17 (amended): the hours and minutes are separated by a colon or a period, and the
\* only suffix is AM or PM in either letter case, after optional white space.
C17_TimeIsClock ==
    Returned =>
        /\ parsed.entities.time = FirstTimeAlternative
        /\ \/ parsed.entities.time = <<"N","/","A">>
           \/ ReTest(ClockShape({":", "."}, << <<Lit(<<"A","M">>)>>, <<Lit(<<"P","M">>)>> >>),
                     parsed.entities.time)

\* a labelled time wins over a bare one that comes first, and a time written with a period
C17_Witness ==
    /\ Returned
    /\ \/ /\ summaryText = <<"1","0",":","4","5"," ","h","o","u","r","s"," ","T","i","m","e",":"," ","1","8",":","3","0"," ","h","r","s"," ">>
          /\ parsed.entities.time = <<"1","8",":","3","0">>
       \/ /\ TimeYielding = {2, 3}
          /\ parsed.entities.time = <<"9",".","0","5"," ","p","m">>

\* C18: for any interleaving of selections and fetch completions, whenever a case is
\* selected and the panel is not loading, the summary shown under the case's heading is
\* the result of the fetch issued for the currently selected case, and loading stays
\* true until that fetch has settled.
C18_SummaryOfSelectedCase ==
    (selectedCase # NoCase /\ ~loading) =>
        \E i \in 1..Len(calls) :
            /\ calls[i].caseId = selectedCase
            /\ calls[i].pc = "done"
            /\ summary = calls[i].result
            /\ summaryText = calls[i].result
====
